---- MODULE Spec2Model ----
(***************************************************************************)
(* The search gateway of amundsen_application/api/search/v0.py: the three  *)
(* search operations (GET /table, POST /table_qs, GET /user), each as the  *)
(* steps validate -> translate -> call upstream -> normalize -> respond.   *)
(*                                                                         *)
(* Strings are sequences of one-character strings, so that count, split,   *)
(* join and lower are computed as Python computes them.  The literal       *)
(* pieces of a format string ('?page_index=', ...) are single atoms of     *)
(* the sequence.  An optional value (a dict key that may be absent, a      *)
(* value that may be None) is a sequence of length 0 or 1.  The nested     *)
(* 'tables' / 'users' dict of an envelope is flattened into the envelope.  *)
(***************************************************************************)
EXTENDS Integers, Sequences, FiniteSets, TLC

VARIABLES
    phase,         \* where the handler of the current request stands
    op,            \* the endpoint serving the current request
    args,          \* the request's parameters, as received
    results_dict,  \* the envelope under construction (None before it exists)
    request,       \* the upstream request built by translation
    upstream,      \* what request_search gave: a response or an exception
    calls,         \* calls to request_search made for the current request
    response,      \* the response returned by the handler
    outcome,       \* the path on which the handler ended
    raised,        \* the exception that left the handler, if one did
    marshalling,   \* the call of a metadata_utils marshalling function in hand
    reqs           \* the requests served side by side, each with its own state

vars == <<phase, op, args, results_dict, request, upstream, calls, response, outcome, raised,
          marshalling, reqs>>

----------------------------------------------------------------------------
(* Bounds of the model *)

\* longest search term of the gateway specification
MaxTermLen == 4
\* longest search term of the translation specification
MaxFieldTermLen == 6
\* most records in one upstream body
MaxRecords == 2

----------------------------------------------------------------------------
(* Optional values *)

None == <<>>
Some(x) == <<x>>
Value(o) == o[1]
\* dict.get(key, default)
Get(o, default) == IF o = None THEN default ELSE o[1]

----------------------------------------------------------------------------
(* http.HTTPStatus *)

OK == 200
BAD_REQUEST == 400
INTERNAL_SERVER_ERROR == 500

----------------------------------------------------------------------------
(* Strings *)

Chars == {"t", "V", ":", " "}
Digits == {"0", "1"}
StringsUpTo(n) == UNION {[1..k -> Chars] : k \in 0..n}

\* str.count(c)
RECURSIVE count(_, _)
count(s, c) ==
    IF Len(s) = 0 THEN 0
    ELSE (IF Head(s) = c THEN 1 ELSE 0) + count(Tail(s), c)

\* the index of the first c in s, 0 when there is none
RECURSIVE find(_, _, _)
find(s, c, i) ==
    IF i > Len(s) THEN 0
    ELSE IF s[i] = c THEN i
    ELSE find(s, c, i + 1)

\* str.split(sep): the pieces between the separators, empty pieces kept
RECURSIVE split(_, _)
split(s, sep) ==
    LET i == find(s, sep, 1) IN
    IF i = 0 THEN <<s>>
    ELSE <<SubSeq(s, 1, i - 1)>> \o split(SubSeq(s, i + 1, Len(s)), sep)

\* sep.join(parts)
RECURSIVE join(_, _)
join(parts, sep) ==
    IF Len(parts) = 0 THEN <<>>
    ELSE IF Len(parts) = 1 THEN parts[1]
    ELSE parts[1] \o <<sep>> \o join(Tail(parts), sep)

lower_char(c) == IF c = "V" THEN "v" ELSE c
\* str.lower()
lower(s) == [i \in 1..Len(s) |-> lower_char(s[i])]

\* whether int(s) succeeds
is_int(s) == Len(s) > 0 /\ \A i \in 1..Len(s) : s[i] \in Digits
digit(c) == IF c = "1" THEN 1 ELSE 0
\* int(s), for a string of digits
RECURSIVE int(_)
int(s) ==
    IF Len(s) = 0 THEN 0
    ELSE 10 * int(SubSeq(s, 1, Len(s) - 1)) + digit(s[Len(s)])

----------------------------------------------------------------------------
(* Collaborators *)

\* app.config['SEARCHSERVICE_BASE']
SEARCHSERVICE_BASE == <<"{SEARCHSERVICE_BASE}">>
SEARCH_ENDPOINT == <<"/search">>
SEARCH_USER_ENDPOINT == <<"/search_user">>

\* search_utils.valid_search_fields: the whitelist of field names
valid_search_fields == {<<"t">>}

\* response_utils.create_error_response: the payload with its message, under the status
create_error_response(message, payload, status_code) ==
    [status_code |-> status_code, body |-> [payload EXCEPT !.msg = message]]

\* make_response(jsonify(d), status)
make_response(d, status_code) == [status_code |-> status_code, body |-> d]

\* results of a computation that may raise
Ret(v) == [ok |-> TRUE, val |-> v, exc |-> ""]
Raise(e) == [ok |-> FALSE, val |-> <<>>, exc |-> e]

\* request_utils.get_query_param: the value, or an exception when it is absent
get_query_param(a, message) == IF a = None THEN Raise(message) ELSE Ret(Value(a))

----------------------------------------------------------------------------
(* Legacy table search: validation *)

\* the envelope of lines 30-35, 74-84, 164-173 and 235-246
envelope(search_term, page_index, msg, status_code) ==
    [search_term |-> search_term, msg |-> msg, status_code |-> status_code,
     page_index |-> page_index, results |-> <<>>, total_results |-> 0]


\* as _validate_search_term, with the field key validated before the fields are counted
_validate_search_term_key_first(search_term, page_index) ==
    LET error_payload == envelope(search_term, page_index, <<>>, None)
        field_key == split(split(search_term, " ")[1], ":")[1]
    IN  IF count(search_term, ":") >= 1 /\ field_key \notin valid_search_fields
        THEN Some(create_error_response(
                 <<"Encountered error: Search field is invalid">>,
                 error_payload, BAD_REQUEST))
        ELSE IF count(search_term, ":") > 1
        THEN Some(create_error_response(
                 <<"Encountered error: Search field should not be more than 1">>,
                 error_payload, BAD_REQUEST))
        ELSE None

\* as _validate_search_term, with the field key taken from the whole term
_validate_search_term_whole_term(search_term, page_index) ==
    LET error_payload == envelope(search_term, page_index, <<>>, None) IN
    IF count(search_term, ":") > 1
    THEN Some(create_error_response(
             <<"Encountered error: Search field should not be more than 1">>,
             error_payload, BAD_REQUEST))
    ELSE IF count(search_term, ":") = 1
    THEN LET field_key == split(search_term, ":")[1] IN
         IF field_key \notin valid_search_fields
         THEN Some(create_error_response(
                  <<"Encountered error: Search field is invalid">>,
                  error_payload, BAD_REQUEST))
         ELSE None
    ELSE None


\* as _validate_search_term, with the message of the first check in both checks
_validate_search_term_same_message(search_term, page_index) ==
    LET error_payload == envelope(search_term, page_index, <<>>, None) IN
    IF count(search_term, ":") > 1
    THEN Some(create_error_response(
             <<"Encountered error: Search field should not be more than 1">>,
             error_payload, BAD_REQUEST))
    ELSE IF count(search_term, ":") = 1
    THEN LET field_key == split(split(search_term, " ")[1], ":")[1] IN
         IF field_key \notin valid_search_fields
         THEN Some(create_error_response(
                  <<"Encountered error: Search field should not be more than 1">>,
                  error_payload, BAD_REQUEST))
         ELSE None
    ELSE None


_validate_search_term(search_term, page_index) ==
    LET error_payload == envelope(search_term, page_index, <<>>, None) IN
    IF count(search_term, ":") > 1
    THEN Some(create_error_response(
             <<"Encountered error: Search field should not be more than 1">>,
             error_payload, BAD_REQUEST))
    ELSE IF count(search_term, ":") = 1
    THEN LET field_key == split(split(search_term, " ")[1], ":")[1] IN
         IF field_key \notin valid_search_fields
         THEN Some(create_error_response(
                  <<"Encountered error: Search field is invalid">>,
                  error_payload, BAD_REQUEST))
         ELSE None
    ELSE None

----------------------------------------------------------------------------
(* What a step of a handler leaves behind *)

St(ph, d, req, resp, out, exc) ==
    [phase |-> ph, results_dict |-> d, request |-> req, response |-> resp,
     outcome |-> out, raised |-> exc]

\* an exception leaves the handler: no response is built by it
Escapes(e) == St("Raised", None, None, None, "escaped", Some(e))

----------------------------------------------------------------------------
(* Legacy table search, GET /table *)

search_table_validate(a) ==
    LET search_term == get_query_param(a.query, "Endpoint takes a query parameter")
        page_index == get_query_param(a.page_index, "Endpoint takes a page_index parameter")
    IN  IF ~search_term.ok THEN Escapes(search_term.exc)
        ELSE IF ~page_index.ok THEN Escapes(page_index.exc)
        ELSE IF ~is_int(page_index.val) THEN Escapes("ValueError: invalid literal for int()")
        ELSE LET error_response ==
                     _validate_search_term(search_term.val, int(page_index.val))
             IN  IF error_response # None
                 THEN St("Failed", None, None, error_response, "validation_error", None)
                 ELSE St("Translating",
                         Some(envelope(search_term.val, int(page_index.val), <<>>, None)),
                         None, None, "none", None)


\* as _create_url_with_field, with the whole term lower-cased before it is split
_create_url_with_field_lower_term(search_term, page_index) ==
    LET fields == split(lower(search_term), " ")
        search_field == split(fields[1], ":")
    IN  IF Len(search_field) < 2 THEN Raise("list index out of range")
        ELSE LET url == SEARCHSERVICE_BASE \o SEARCH_ENDPOINT \o <<"/field/">>
                            \o search_field[1] \o <<"/field_val/">> \o search_field[2]
                            \o <<"?page_index=">> \o page_index
                 remainder == join(Tail(fields), " ")
             IN  IF remainder # <<>>
                 THEN Ret(url \o <<"&query_term=">> \o remainder)
                 ELSE Ret(url)

\* as _create_url_with_field, with query_term appended whatever the remainder
_create_url_with_field_always_query_term(search_term, page_index) ==
    LET fields == split(search_term, " ")
        search_field == split(fields[1], ":")
    IN  IF Len(search_field) < 2 THEN Raise("list index out of range")
        ELSE Ret(SEARCHSERVICE_BASE \o SEARCH_ENDPOINT \o <<"/field/">> \o search_field[1]
                     \o <<"/field_val/">> \o lower(search_field[2])
                     \o <<"?page_index=">> \o page_index
                     \o <<"&query_term=">> \o join(Tail(fields), " "))


_create_url_with_field(search_term, page_index) ==
    LET fields == split(search_term, " ")
        search_field == split(fields[1], ":")
    IN  IF Len(search_field) < 2 THEN Raise("list index out of range")
        ELSE LET field_key == search_field[1]
                 field_val == lower(search_field[2])
                 remainder == join(Tail(fields), " ")
                 url == SEARCHSERVICE_BASE \o SEARCH_ENDPOINT \o <<"/field/">> \o field_key
                            \o <<"/field_val/">> \o field_val
                            \o <<"?page_index=">> \o page_index
             IN  IF remainder # <<>>
                 THEN Ret(url \o <<"&query_term=">> \o remainder)
                 ELSE Ret(url)

\* as search_table_except, with 200 as the status of an envelope that holds none
search_table_except_default_ok(d, e) ==
    LET results == [d EXCEPT !.msg = <<"Encountered exception: ", e>>]
    IN  make_response(results, Get(results.status_code, OK))

\* lines 110-114, then line 59
search_table_except(d, e) ==
    LET results == [d EXCEPT !.msg = <<"Encountered exception: ", e>>]
    IN  make_response(results, Get(results.status_code, INTERNAL_SERVER_ERROR))


\* as _search_table_translate, with the plain query term lower-cased like a field value
_search_table_translate_lower_query(d, a) ==
    LET search_term == Value(a.query)
        page_index == Value(a.page_index)
        url == IF find(search_term, ":", 1) # 0
               THEN _create_url_with_field(search_term, page_index)
               ELSE Ret(SEARCHSERVICE_BASE \o SEARCH_ENDPOINT \o <<"?query_term=">>
                            \o lower(search_term) \o <<"&page_index=">> \o page_index)
    IN  IF url.ok
        THEN St("AwaitingUpstream", Some(d),
                Some([method |-> "GET", url |-> url.val, data |-> None]),
                None, "none", None)
        ELSE St("Failed", Some(search_table_except(d, url.exc).body), None,
                Some(search_table_except(d, url.exc)), "exception", None)


_search_table_translate(d, a) ==
    LET search_term == Value(a.query)
        page_index == Value(a.page_index)
        url == IF find(search_term, ":", 1) # 0
               THEN _create_url_with_field(search_term, page_index)
               ELSE Ret(SEARCHSERVICE_BASE \o SEARCH_ENDPOINT \o <<"?query_term=">>
                            \o search_term \o <<"&page_index=">> \o page_index)
    IN  IF url.ok
        THEN St("AwaitingUpstream", Some(d),
                Some([method |-> "GET", url |-> url.val, data |-> None]),
                None, "none", None)
        ELSE St("Failed", Some(search_table_except(d, url.exc).body), None,
                Some(search_table_except(d, url.exc)), "exception", None)

----------------------------------------------------------------------------
(* Result normalization *)

\* search_utils.map_table_result
map_table_result(result) ==
    IF result.well_formed THEN Ret([type |-> "table", name |-> result.name])
    ELSE Raise("AttributeError")

_map_user_result(result) ==
    IF result.well_formed THEN Ret([type |-> "user", name |-> result.name])
    ELSE Raise("ValidationError")

map_result(result, kind) ==
    IF kind = "user" THEN _map_user_result(result) ELSE map_table_result(result)

\* [map(result) for result in results]: the whole list, or the first exception
list_of_results(results, kind) ==
    LET bad == {i \in 1..Len(results) : ~map_result(results[i], kind).ok} IN
    IF bad = {}
    THEN Ret([i \in 1..Len(results) |-> map_result(results[i], kind).val])
    ELSE Raise(map_result(results[CHOOSE i \in bad : \A j \in bad : i <= j], kind).exc)

\* response.json().get('results'), mapped
response_results(body, kind) ==
    IF body.kind = "not_json" THEN Raise("JSONDecodeError")
    ELSE IF body.kind = "bad_results" THEN Raise("TypeError")
    ELSE list_of_results(body.results, kind)


\* the results mapped before the first record that raises
RECURSIVE mapped_prefix(_, _)
mapped_prefix(results, kind) ==
    IF Len(results) = 0 \/ ~map_result(Head(results), kind).ok THEN <<>>
    ELSE <<map_result(Head(results), kind).val>> \o mapped_prefix(Tail(results), kind)

\* as after_response, with total_results counted from the records of this page
after_response_total_is_len(d, resp, kind) ==
    IF resp.status_code = OK
    THEN LET results == response_results(resp.body, kind) IN
         IF results.ok
         THEN Ret([d EXCEPT !.msg = <<"Success">>,
                            !.results = results.val,
                            !.total_results = Len(results.val),
                            !.status_code = Some(resp.status_code)])
         ELSE [ok |-> FALSE, val |-> [d EXCEPT !.msg = <<"Success">>], exc |-> results.exc]
    ELSE Ret([d EXCEPT !.msg = <<"Encountered error: Search request failed">>,
                       !.status_code = Some(resp.status_code)])

\* as after_response, with the status code recorded on success only
after_response_status_on_success(d, resp, kind) ==
    IF resp.status_code = OK
    THEN LET results == response_results(resp.body, kind) IN
         IF results.ok
         THEN Ret([d EXCEPT !.msg = <<"Success">>,
                            !.results = results.val,
                            !.total_results = resp.body.total_results,
                            !.status_code = Some(resp.status_code)])
         ELSE [ok |-> FALSE, val |-> [d EXCEPT !.msg = <<"Success">>], exc |-> results.exc]
    ELSE Ret([d EXCEPT !.msg = <<"Encountered error: Search request failed">>])

\* as after_response, with the records appended to the envelope one by one
after_response_appending(d, resp, kind) ==
    IF resp.status_code = OK
    THEN LET results == response_results(resp.body, kind) IN
         IF results.ok
         THEN Ret([d EXCEPT !.msg = <<"Success">>,
                            !.results = results.val,
                            !.total_results = resp.body.total_results,
                            !.status_code = Some(resp.status_code)])
         ELSE [ok |-> FALSE,
               val |-> [d EXCEPT !.msg = <<"Success">>,
                                 !.results = mapped_prefix(resp.body.results, kind)],
               exc |-> results.exc]
    ELSE Ret([d EXCEPT !.msg = <<"Encountered error: Search request failed">>,
                       !.status_code = Some(resp.status_code)])

\* as after_response, with the status code recorded before the body is read
after_response_status_first(d, resp, kind) ==
    IF resp.status_code = OK
    THEN LET results == response_results(resp.body, kind) IN
         IF results.ok
         THEN Ret([d EXCEPT !.msg = <<"Success">>,
                            !.results = results.val,
                            !.total_results = resp.body.total_results,
                            !.status_code = Some(resp.status_code)])
         ELSE [ok |-> FALSE,
               val |-> [d EXCEPT !.msg = <<"Success">>,
                                 !.status_code = Some(resp.status_code)],
               exc |-> results.exc]
    ELSE Ret([d EXCEPT !.msg = <<"Encountered error: Search request failed">>,
                       !.status_code = Some(resp.status_code)])

\* the status branch of lines 98-108, 191-201 and 256-266
\* (the message is set to 'Success' before the body is read, and an exception
\*  leaves the envelope as it then stands)
after_response(d, resp, kind) ==
    IF resp.status_code = OK
    THEN LET results == response_results(resp.body, kind) IN
         IF results.ok
         THEN Ret([d EXCEPT !.msg = <<"Success">>,
                            !.results = results.val,
                            !.total_results = resp.body.total_results,
                            !.status_code = Some(resp.status_code)])
         ELSE [ok |-> FALSE, val |-> [d EXCEPT !.msg = <<"Success">>], exc |-> results.exc]
    ELSE Ret([d EXCEPT !.msg = <<"Encountered error: Search request failed">>,
                       !.status_code = Some(resp.status_code)])

path(resp) == IF resp.status_code = OK THEN "success" ELSE "upstream_error"
final(resp) == IF resp.status_code = OK THEN "Done" ELSE "Failed"

_search_table_normalize(d, req, resp) ==
    LET got == after_response(d, resp, "table") IN
    IF got.ok
    THEN St(final(resp), Some(got.val), Some(req),
            Some(make_response(got.val, Get(got.val.status_code, INTERNAL_SERVER_ERROR))),
            path(resp), None)
    ELSE St("Failed", Some(search_table_except(got.val, got.exc).body), Some(req),
            Some(search_table_except(got.val, got.exc)), "exception", None)

----------------------------------------------------------------------------
(* Structured table search, POST /table_qs *)

\* a filters value that generate_query_json cannot transform
MalformedFilters == {"<malformed>"}

\* search_utils.generate_query_json: the payload of the three values, or an exception
generate_query_json(filters, page_index, search_term) ==
    IF filters = MalformedFilters THEN Raise("invalid filters")
    ELSE Ret([filters |-> filters, page_index |-> page_index, search_term |-> search_term])

\* as search_table_query_string_validate, with an absent term read as the empty term
search_table_query_string_validate_optional_term(a) ==
    LET search_term == Ret(Get(a.query, <<>>))
        page_index == get_query_param(a.page_index, "pageIndex parameter expected in request data")
    IN  IF ~page_index.ok THEN Escapes(page_index.exc)
        ELSE IF ~is_int(page_index.val) THEN Escapes("ValueError: invalid literal for int()")
        ELSE St("Translating",
                Some(envelope(search_term.val, int(page_index.val), <<>>, None)),
                None, None, "none", None)


search_table_query_string_validate(a) ==
    LET search_term == get_query_param(a.query, "term parameter expected in request data")
        page_index == get_query_param(a.page_index, "pageIndex parameter expected in request data")
    IN  IF ~search_term.ok THEN Escapes(search_term.exc)
        ELSE IF ~page_index.ok THEN Escapes(page_index.exc)
        ELSE IF ~is_int(page_index.val) THEN Escapes("ValueError: invalid literal for int()")
        ELSE St("Translating",
                Some(envelope(search_term.val, int(page_index.val), <<>>, None)),
                None, None, "none", None)

\* as search_table_query_string_translate, with one except clause for the whole handler
search_table_query_string_translate_one_except(d, a) ==
    LET filters == Get(a.filters, {})
        query_json == generate_query_json(filters, Value(a.page_index), Value(a.query))
    IN  IF ~query_json.ok
        THEN LET results == [d EXCEPT !.msg = <<"Encountered exception: ", query_json.exc>>]
             IN  St("Failed", Some(results), None,
                    Some(make_response(results, INTERNAL_SERVER_ERROR)),
                    "query_json_error", None)
        ELSE St("AwaitingUpstream", Some(d),
                Some([method |-> "POST", url |-> SEARCHSERVICE_BASE \o <<"/search_table">>,
                      data |-> Some(query_json.val)]),
                None, "none", None)

\* as search_table_query_string_translate, with the request's filters left out
search_table_query_string_translate_no_filters(d, a) ==
    LET query_json == generate_query_json({}, Value(a.page_index), Value(a.query))
    IN  IF ~query_json.ok
        THEN LET results ==
                     [d EXCEPT !.msg = <<"Encountered exception generating query json: ",
                                         query_json.exc>>]
             IN  St("Failed", Some(results), None,
                    Some(make_response(results, INTERNAL_SERVER_ERROR)),
                    "query_json_error", None)
        ELSE St("AwaitingUpstream", Some(d),
                Some([method |-> "POST", url |-> SEARCHSERVICE_BASE \o <<"/search_table">>,
                      data |-> Some(query_json.val)]),
                None, "none", None)


search_table_query_string_translate(d, a) ==
    LET filters == Get(a.filters, {})
        query_json == generate_query_json(filters, Value(a.page_index), Value(a.query))
    IN  IF ~query_json.ok
        THEN LET results ==
                     [d EXCEPT !.msg = <<"Encountered exception generating query json: ",
                                         query_json.exc>>]
             IN  St("Failed", Some(results), None,
                    Some(make_response(results, INTERNAL_SERVER_ERROR)),
                    "query_json_error", None)
        ELSE St("AwaitingUpstream", Some(d),
                Some([method |-> "POST", url |-> SEARCHSERVICE_BASE \o <<"/search_table">>,
                      data |-> Some(query_json.val)]),
                None, "none", None)

\* lines 203-207
search_table_query_string_except(d, e) ==
    LET results == [d EXCEPT !.msg = <<"Encountered exception: ", e>>]
    IN  make_response(results, INTERNAL_SERVER_ERROR)

search_table_query_string_normalize(d, req, resp) ==
    LET got == after_response(d, resp, "table") IN
    IF got.ok
    THEN St(final(resp), Some(got.val), Some(req),
            Some(make_response(got.val, resp.status_code)), path(resp), None)
    ELSE St("Failed", Some(search_table_query_string_except(got.val, got.exc).body), Some(req),
            Some(search_table_query_string_except(got.val, got.exc)), "exception", None)

----------------------------------------------------------------------------
(* User search, GET /user *)

search_user_validate(a) ==
    LET search_term == get_query_param(a.query, "Endpoint takes a query parameter")
        page_index == get_query_param(a.page_index, "Endpoint takes a page_index parameter")
    IN  IF ~search_term.ok THEN Escapes(search_term.exc)
        ELSE IF ~page_index.ok THEN Escapes(page_index.exc)
        ELSE IF ~is_int(page_index.val) THEN Escapes("ValueError: invalid literal for int()")
        ELSE St("Translating",
                Some(envelope(search_term.val, int(page_index.val), <<"Success">>, Some(OK))),
                None, None, "none", None)

_search_user_translate(d, a) ==
    St("AwaitingUpstream", Some(d),
       Some([method |-> "GET",
             url |-> SEARCHSERVICE_BASE \o SEARCH_USER_ENDPOINT \o <<"?query_term=">>
                         \o Value(a.query) \o <<"&page_index=">> \o Value(a.page_index),
             data |-> None]),
       None, "none", None)

\* lines 268-272, then line 216
search_user_except(d, e) ==
    LET results == [d EXCEPT !.msg = <<"Encountered exception: ", e>>]
    IN  make_response(results, Get(results.status_code, INTERNAL_SERVER_ERROR))

_search_user_normalize(d, req, resp) ==
    LET got == after_response(d, resp, "user") IN
    IF got.ok
    THEN St(final(resp), Some(got.val), Some(req),
            Some(make_response(got.val, Get(got.val.status_code, INTERNAL_SERVER_ERROR))),
            path(resp), None)
    ELSE St("Failed", Some(search_user_except(got.val, got.exc).body), Some(req),
            Some(search_user_except(got.val, got.exc)), "exception", None)

----------------------------------------------------------------------------
(* The requests and the upstream's answers *)

Ops == {"table", "table_qs", "user"}
PageIndexArgs == {None, Some(<<"1">>), Some(<<"0", "1">>), Some(<<"x">>)}
FilterArgs == {None, Some({"schema"}), Some(MalformedFilters)}
QueryArgs(n) == {None} \cup {Some(t) : t \in StringsUpTo(n)}

UpstreamStatuses == {OK, BAD_REQUEST, INTERNAL_SERVER_ERROR}
UpstreamRecords ==
    {[name |-> "r1", well_formed |-> TRUE], [name |-> "r2", well_formed |-> TRUE],
     [name |-> "r1", well_formed |-> FALSE]}
TotalResults == {3, 7}
NotJson == [kind |-> "not_json", results |-> <<>>, total_results |-> 0]
BadResults == [kind |-> "bad_results", results |-> <<>>, total_results |-> 3]
JsonBodies ==
    {[kind |-> "json", results |-> r, total_results |-> n] :
        r \in UNION {[1..k -> UpstreamRecords] : k \in 0..MaxRecords}, n \in TotalResults}
\* what an upstream error answer carries: the code never reads it
ErrorBodies == {NotJson, [kind |-> "json",
                          results |-> <<[name |-> "r1", well_formed |-> TRUE]>>,
                          total_results |-> 3]}
UpstreamResponses ==
    {[exc |-> None, status_code |-> OK, body |-> b] : b \in JsonBodies \cup {NotJson, BadResults}}
    \cup {[exc |-> None, status_code |-> s, body |-> b] :
            s \in UpstreamStatuses \ {OK}, b \in ErrorBodies}
\* request_utils.request_search: an answer, or an exception (no connection, timeout)
request_search ==
    UpstreamResponses
    \cup {[exc |-> Some("ConnectionError"), status_code |-> 0, body |-> NotJson]}

----------------------------------------------------------------------------
(* The steps of a request *)

validate(o, a) ==
    CASE o = "table" -> search_table_validate(a)
      [] o = "table_qs" -> search_table_query_string_validate(a)
      [] OTHER -> search_user_validate(a)

translate(o, d, a) ==
    CASE o = "table" -> _search_table_translate(d, a)
      [] o = "table_qs" -> search_table_query_string_translate(d, a)
      [] OTHER -> _search_user_translate(d, a)

on_exception(o, d, e) ==
    CASE o = "table" -> search_table_except(d, e)
      [] o = "table_qs" -> search_table_query_string_except(d, e)
      [] OTHER -> search_user_except(d, e)

normalize(o, d, req, resp) ==
    CASE o = "table" -> _search_table_normalize(d, req, resp)
      [] o = "table_qs" -> search_table_query_string_normalize(d, req, resp)
      [] OTHER -> _search_user_normalize(d, req, resp)

Becomes(st) ==
    /\ phase' = st.phase
    /\ results_dict' = st.results_dict
    /\ request' = st.request
    /\ response' = st.response
    /\ outcome' = st.outcome
    /\ raised' = st.raised

\* no marshalling call in hand
NoCall == [call |-> "none", table_dict |-> None, config |-> None, partition |-> None,
           result |-> None]

\* most requests served side by side
MaxRequests == 2
Requests == 1..MaxRequests

\* a request slot before its request has come
Idle ==
    [phase |-> "Idle", op |-> "table",
     args |-> [query |-> None, page_index |-> None, filters |-> None],
     results_dict |-> None, request |-> None, upstream |-> None, calls |-> 0,
     response |-> None, outcome |-> "none", raised |-> None]

Init ==
    /\ phase = "Idle"
    /\ op = "table"
    /\ args = [query |-> None, page_index |-> None, filters |-> None]
    /\ results_dict = None
    /\ request = None
    /\ upstream = None
    /\ calls = 0
    /\ response = None
    /\ outcome = "none"
    /\ raised = None
    /\ marshalling = NoCall
    /\ reqs = [r \in Requests |-> Idle]

Receive(ops, n) ==
    /\ phase = "Idle"
    /\ \E o \in ops, q \in QueryArgs(n), p \in PageIndexArgs, f \in FilterArgs :
        /\ o # "table_qs" => f = None
        /\ op' = o
        /\ args' = [query |-> q, page_index |-> p, filters |-> f]
    /\ phase' = "Validating"
    /\ UNCHANGED <<results_dict, request, upstream, calls, response, outcome, raised>>
    /\ UNCHANGED <<marshalling, reqs>>

\* a request to any of the three endpoints
ReceiveRequest == Receive(Ops, MaxTermLen)

\* a request to GET /table
ReceiveTableRequest == Receive({"table"}, MaxFieldTermLen)

Validate ==
    /\ phase = "Validating"
    /\ Becomes(validate(op, args))
    /\ UNCHANGED <<op, args, upstream, calls>>
    /\ UNCHANGED <<marshalling, reqs>>

Translate ==
    /\ phase = "Translating"
    /\ Becomes(translate(op, Value(results_dict), args))
    /\ UNCHANGED <<op, args, upstream, calls>>
    /\ UNCHANGED <<marshalling, reqs>>

\* as CallUpstream, with the call made again after an exception
CallUpstream_retry ==
    /\ phase = "AwaitingUpstream"
    /\ \E r \in request_search :
        /\ upstream' = Some(r)
        /\ calls' = calls + 1
        /\ IF r.exc # None
           THEN Becomes(St("AwaitingUpstream", results_dict, request, None, "none", None))
           ELSE Becomes(St("Normalizing", results_dict, request, None, "none", None))
    /\ UNCHANGED <<op, args>>
    /\ UNCHANGED <<marshalling, reqs>>


CallUpstream ==
    /\ phase = "AwaitingUpstream"
    /\ \E r \in request_search :
        /\ upstream' = Some(r)
        /\ calls' = calls + 1
        /\ IF r.exc # None
           THEN LET failed == on_exception(op, Value(results_dict), Value(r.exc)) IN
                Becomes(St("Failed", Some(failed.body), request, Some(failed),
                           "exception", None))
           ELSE Becomes(St("Normalizing", results_dict, request, None, "none", None))
    /\ UNCHANGED <<op, args>>
    /\ UNCHANGED <<marshalling, reqs>>

Normalize ==
    /\ phase = "Normalizing"
    /\ Becomes(normalize(op, Value(results_dict), Value(request), Value(upstream)))
    /\ UNCHANGED <<op, args, upstream, calls>>
    /\ UNCHANGED <<marshalling, reqs>>

\* the request is over; nothing of it is kept
Finish ==
    /\ phase \in {"Done", "Failed", "Raised"}
    /\ phase' = "Idle"
    /\ op' = "table"
    /\ args' = [query |-> None, page_index |-> None, filters |-> None]
    /\ results_dict' = None
    /\ request' = None
    /\ upstream' = None
    /\ calls' = 0
    /\ response' = None
    /\ outcome' = "none"
    /\ raised' = None
    /\ UNCHANGED <<marshalling, reqs>>

Next ==
    \/ ReceiveRequest
    \/ Validate
    \/ Translate
    \/ CallUpstream
    \/ Normalize
    \/ Finish

Spec == Init /\ [][Next]_vars

NextTranslation ==
    \/ ReceiveTableRequest
    \/ Validate
    \/ Translate
    \/ Finish

\* the validation and translation of GET /table alone, on longer terms
SpecTranslation == Init /\ [][NextTranslation]_vars

----------------------------------------------------------------------------
(* The request in hand, as the claims read it *)

\* both parameters are present and page_index is an integer
WellFormed ==
    /\ args.query # None
    /\ args.page_index # None
    /\ is_int(Value(args.page_index))

Term == Value(args.query)
Page == Value(args.page_index)

\* the part of s before the first c (all of s when it has none), and the part after it
Before(s, c) == LET i == find(s, c, 1) IN IF i = 0 THEN s ELSE SubSeq(s, 1, i - 1)
After(s, c) == LET i == find(s, c, 1) IN IF i = 0 THEN <<>> ELSE SubSeq(s, i + 1, Len(s))

\* the substring before the ':', taken up to the first space
FieldKey(t) == Before(Before(t, ":"), " ")
\* what follows the ':' in the first token
FieldValue(t) == Before(After(t, ":"), " ")
\* everything after the first space
Remainder(t) == After(t, " ")
ColonInFirstToken(t) == find(Before(t, " "), ":", 1) # 0

\* {base}/search/field/{field_key}/field_val/{lower-cased field_value}?page_index={page_index}
FieldUrl(t, p) ==
    <<"{SEARCHSERVICE_BASE}", "/search", "/field/">> \o FieldKey(t) \o <<"/field_val/">>
        \o lower(FieldValue(t)) \o <<"?page_index=">> \o p

Elements(s) == {s[i] : i \in 1..Len(s)}

Validated == phase \notin {"Idle", "Validating"}
Translated == phase \notin {"Idle", "Validating", "Translating"}
Responded == response # None
Body == Value(response).body
Status == Value(response).status_code
EmptyResults == Body.results = <<>> /\ Body.total_results = 0

----------------------------------------------------------------------------
(* C1 *)

\* C1: GET /table with a term holding more than one ':' is answered 400 with
\* results=[] and total_results=0 and without a call to the upstream, and the
\* answer is that of the more-than-one check whatever the first field key is.
C1_MoreThanOneField ==
    (op = "table" /\ WellFormed /\ Validated /\ count(Term, ":") > 1)
        => /\ phase = "Failed"
           /\ Responded
           /\ Status = BAD_REQUEST
           /\ EmptyResults
           /\ Body.msg = <<"Encountered error: Search field should not be more than 1">>
           /\ request = None
           /\ calls = 0

\* a term of two ':' whose first field key is not in the whitelist, rejected
C1_Witness ==
    /\ op = "table" /\ WellFormed /\ phase = "Failed"
    /\ count(Term, ":") = 2
    /\ FieldKey(Term) \notin valid_search_fields
    /\ Status = BAD_REQUEST

----------------------------------------------------------------------------
(* C2 *)

\* C2: GET /table with a term holding exactly one ':': a field key outside the
\* whitelist is answered 400 with an empty envelope echoing search_term and
\* page_index, without a call to the upstream; a field key of the whitelist
\* passes validation and the request goes on to translation.
C2_FieldKeyWhitelist ==
    (op = "table" /\ WellFormed /\ Validated /\ count(Term, ":") = 1)
        => IF FieldKey(Term) \notin valid_search_fields
           THEN /\ phase = "Failed"
                /\ outcome = "validation_error"
                /\ Status = BAD_REQUEST
                /\ EmptyResults
                /\ Body.search_term = Term
                /\ Body.page_index = int(Page)
                /\ request = None
                /\ calls = 0
           ELSE /\ outcome # "validation_error"
                /\ results_dict # None

\* a term of one ':' whose key, cut at the first space, is not in the whitelist
C2_Witness ==
    /\ op = "table" /\ WellFormed /\ phase = "Failed"
    /\ count(Term, ":") = 1
    /\ find(Term, " ", 1) # 0
    /\ FieldKey(Term) \notin valid_search_fields
    /\ Page = <<"0", "1">>
    /\ Body.page_index = 1

----------------------------------------------------------------------------
(* C3 *)

----------------------------------------------------------------------------
(* C4 *)

\* C4: for a term of exactly one ':', the URL that is built ends at
\* '?page_index={page_index}' and holds no query_term when the remainder is
\* empty; '&query_term={remainder}' is there if and only if the remainder is
\* not empty.
C4_QueryTermIffRemainder ==
    (op = "table" /\ WellFormed /\ count(Term, ":") = 1 /\ request # None)
        => LET url == Value(request).url
               tail == <<"?page_index=">> \o Page
           IN  /\ Remainder(Term) = <<>> =>
                      /\ Len(url) >= Len(tail)
                      /\ SubSeq(url, Len(url) - Len(tail) + 1, Len(url)) = tail
               /\ ("&query_term=" \in Elements(url)) <=> (Remainder(Term) # <<>>)

\* a URL built from a term that ends in a space: its remainder is empty
C4_Witness ==
    /\ op = "table" /\ WellFormed /\ phase = "AwaitingUpstream"
    /\ count(Term, ":") = 1
    /\ find(Term, " ", 1) = Len(Term)
    /\ "&query_term=" \notin Elements(Value(request).url)

----------------------------------------------------------------------------
(* C5 *)

\* C5: GET /table with a term of no ':' asks the upstream for
\* {base}/search?query_term={raw_term}&page_index={page_index}, the term and
\* the page index as they were received.
C5_PlainQuery ==
    (op = "table" /\ WellFormed /\ Translated /\ count(Term, ":") = 0)
        => request = Some([method |-> "GET",
                           url |-> <<"{SEARCHSERVICE_BASE}", "/search", "?query_term=">>
                                       \o Term \o <<"&page_index=">> \o Page,
                           data |-> None])

\* a plain query of upper-case letters and spaces, with page index '01'
C5_Witness ==
    /\ op = "table" /\ WellFormed /\ phase = "AwaitingUpstream"
    /\ count(Term, ":") = 0
    /\ "V" \in Elements(Term) /\ " " \in Elements(Term)
    /\ Page = <<"0", "1">>
    /\ request # None

----------------------------------------------------------------------------
(* The upstream's answer, as the claims read it *)

\* request_search returned a response and the handler has dealt with it
Answered == upstream # None /\ Value(upstream).exc = None /\ phase # "Normalizing"
Answer == Value(upstream)

\* the answer is a 200 whose body is a list of well-formed records
WellFormedRecords ==
    /\ Answer.status_code = 200
    /\ Answer.body.kind = "json"
    /\ \A i \in 1..Len(Answer.body.results) : Answer.body.results[i].well_formed

\* the record the frontend gets for an upstream record
Normalized(record) ==
    [type |-> IF op = "user" THEN "user" ELSE "table", name |-> record.name]

\* a response that is not that of a 200 with well-formed records
FailurePath == Responded /\ ~(Answered /\ WellFormedRecords)

----------------------------------------------------------------------------
(* C6 *)

\* C6: in each of the three operations, a 200 from the upstream with N
\* well-formed records gives status 200, message 'Success', the N records
\* normalized in the upstream's order, and the upstream's total_results.
C6_SuccessEnvelope ==
    (Answered /\ WellFormedRecords)
        => /\ phase = "Done"
           /\ Status = 200
           /\ Body.msg = <<"Success">>
           /\ Len(Body.results) = Len(Answer.body.results)
           /\ \A i \in 1..Len(Answer.body.results) :
                  Body.results[i] = Normalized(Answer.body.results[i])
           /\ Body.total_results = Answer.body.total_results

\* user search answered with two different well-formed records
C6_Witness ==
    /\ op = "user" /\ Answered /\ WellFormedRecords /\ phase = "Done"
    /\ Len(Answer.body.results) = 2
    /\ Answer.body.results[1].name = "r2"
    /\ Answer.body.results[2].name = "r1"
    /\ Answer.body.total_results = 7

----------------------------------------------------------------------------
(* C7 *)

\* C7: in each of the three operations, a status other than 200 from the
\* upstream gives results=[], total_results=0, the upstream's status as the
\* response status, and the message 'Encountered error: Search request failed'.
C7_UpstreamFailure ==
    (Answered /\ Answer.status_code # 200)
        => /\ phase = "Failed"
           /\ EmptyResults
           /\ Status = Answer.status_code
           /\ Body.msg = <<"Encountered error: Search request failed">>

\* structured search answered 400, with a body that holds a record
C7_Witness ==
    /\ op = "table_qs" /\ Answered /\ phase = "Failed"
    /\ Answer.status_code = 400
    /\ Answer.body.kind = "json"
    /\ Status = 400

----------------------------------------------------------------------------
(* C8 *)

\* C8: every response on a failure path (validation error, payload-generation
\* error, upstream status other than 200, exception caught while calling the
\* upstream or normalizing its records) has results=[] and total_results=0.
C8_FailureIsEmpty == FailurePath => EmptyResults

\* a 200 whose second record raises after the first was normalized
C8_Witness ==
    /\ Answered /\ Answer.status_code = 200 /\ Answer.body.kind = "json"
    /\ Len(Answer.body.results) = 2
    /\ Answer.body.results[1].well_formed
    /\ ~Answer.body.results[2].well_formed
    /\ outcome = "exception"
    /\ Responded

----------------------------------------------------------------------------
(* C9 *)

\* C9: on every failure path the response's status code and message reflect
\* the failure: a failure never goes out with status 200, nor with 'Success'.
C9_FailureIsNot200 ==
    FailurePath => (Status # 200 /\ Body.msg # <<"Success">>)

----------------------------------------------------------------------------
(* C10 *)

\* the handler's except clause built the response
ExceptionCaught == Responded /\ outcome = "exception"

ExceptionMessage ==
    /\ Len(Body.msg) = 2
    /\ Body.msg[1] = "Encountered exception: "
    /\ Body.msg[2] \in {"list index out of range", "ConnectionError", "JSONDecodeError",
                        "TypeError", "AttributeError", "ValidationError"}
    /\ (upstream # None /\ Value(upstream).exc # None) => Body.msg[2] = Value(Value(upstream).exc)

\* C10 as stated, read on the two table searches: a caught exception is answered
\* with the upstream's status when one was received and with 500 otherwise.
C10_AsStated ==
    (ExceptionCaught /\ op \in {"table", "table_qs"})
        => /\ Status = IF upstream # None /\ Value(upstream).exc = None
                       THEN Answer.status_code ELSE 500
           /\ ExceptionMessage

\* C10, amended: a caught exception is answered with the message
\* 'Encountered exception: ' followed by the exception text, and, in legacy and
\* structured table search, with status 500 whether or not the upstream's
\* status had been received.
C10_ExceptionIs500 ==
    ExceptionCaught
        => /\ ExceptionMessage
           /\ op \in {"table", "table_qs"} => Status = 500

\* legacy table search: the upstream's 200 was received, its body is not JSON
C10_Witness ==
    /\ op = "table" /\ ExceptionCaught /\ Answered
    /\ Answer.status_code = 200
    /\ Answer.body.kind = "not_json"
    /\ Status = 500

----------------------------------------------------------------------------
(* C11 *)

\* C11: legacy table search answered 200 with a body that cannot be processed
\* into records catches the exception and answers 500, not 200.
C11_BadBodyIs500 ==
    (op = "table" /\ Answered /\ Answer.status_code = 200 /\ ~WellFormedRecords)
        => /\ phase = "Failed"
           /\ outcome = "exception"
           /\ Responded
           /\ Status = 500
           /\ raised = None

\* legacy table search answered 200 with 'results' that is not a list of records
C11_Witness ==
    /\ op = "table" /\ Answered /\ phase = "Failed"
    /\ Answer.status_code = 200
    /\ Answer.body.kind = "bad_results"
    /\ Status = 500

----------------------------------------------------------------------------
(* C12 *)

\* what the client gets: the handler's response, or the transport's 500 for an
\* exception that left the handler
http_status == IF raised # None THEN INTERNAL_SERVER_ERROR ELSE Status

MissingParameter == args.query = None \/ args.page_index = None

\* C12: every endpoint answers a request that lacks its term or its page index
\* with 500, before an envelope exists, a request is translated or the upstream
\* is called.
C12_MissingParameterIs500 ==
    (Validated /\ MissingParameter)
        => /\ phase = "Raised"
           /\ raised # None
           /\ http_status = 500
           /\ results_dict = None
           /\ request = None
           /\ calls = 0

\* POST /table_qs with a pageIndex and no term
C12_Witness ==
    /\ op = "table_qs" /\ phase = "Raised"
    /\ args.query = None /\ args.page_index = Some(<<"1">>)
    /\ http_status = 500

----------------------------------------------------------------------------
(* C13 *)

GenerationFails == op = "table_qs" /\ WellFormed /\ args.filters = Some(MalformedFilters)

\* C13: in structured table search an exception raised while the query JSON is
\* generated is caught and answered 500 with the message 'Encountered exception
\* generating query json: ' followed by the exception text and an empty
\* envelope, and the upstream is not called.
C13_QueryJsonError ==
    (GenerationFails /\ Translated)
        => /\ phase = "Failed"
           /\ Responded
           /\ Status = 500
           /\ Body.msg = <<"Encountered exception generating query json: ", "invalid filters">>
           /\ EmptyResults
           /\ Body.search_term = Term
           /\ request = None
           /\ upstream = None
           /\ calls = 0
           /\ raised = None

\* structured search whose filters cannot be turned into a query
C13_Witness ==
    /\ GenerationFails /\ phase = "Failed"
    /\ outcome = "query_json_error"
    /\ Len(Term) > 0
    /\ Status = 500

----------------------------------------------------------------------------
(* C14 *)

\* C14: structured table search generates its query JSON from the request's
\* own values, unchanged: filters (the empty mapping when the request has
\* none), pageIndex and term; and that payload is what is POSTed to the
\* upstream's search_table endpoint.
C14_QueryJsonFromRequest ==
    (op = "table_qs" /\ request # None)
        => /\ Value(request).method = "POST"
           /\ Value(request).url = <<"{SEARCHSERVICE_BASE}", "/search_table">>
           /\ Value(request).data =
                  Some([filters |-> IF args.filters = None THEN {} ELSE Value(args.filters),
                        page_index |-> Page,
                        search_term |-> Term])

\* a structured search with a filter, a term of both cases and pageIndex '01'
C14_Witness ==
    /\ op = "table_qs" /\ phase = "AwaitingUpstream"
    /\ args.filters = Some({"schema"})
    /\ Page = <<"0", "1">>
    /\ "V" \in Elements(Term)
    /\ Value(Value(request).data).filters = {"schema"}

----------------------------------------------------------------------------
(* C15 *)

\* C15, for requests that carry both parameters: no exception leaves the
\* handler, and a handler that has ended has returned a response.
C15_NoExceptionEscapes ==
    (Validated /\ ~MissingParameter)
        => /\ raised = None
           /\ phase # "Raised"
           /\ phase \in {"Done", "Failed"} => Responded

----------------------------------------------------------------------------
(* C16 *)

\* C16 as stated: the two validation messages are exactly 'Search field should
\* not be more than 1' and 'Search field is invalid'.
C16_AsStated ==
    (op = "table" /\ WellFormed /\ Validated /\ count(Term, ":") >= 1
        /\ (count(Term, ":") > 1 \/ FieldKey(Term) \notin valid_search_fields))
        => /\ Responded
           /\ Body.msg = IF count(Term, ":") > 1
                         THEN <<"Search field should not be more than 1">>
                         ELSE <<"Search field is invalid">>

\* C16, amended: the validation messages are exactly 'Encountered error: Search
\* field should not be more than 1' for a term of more than one ':' and
\* 'Encountered error: Search field is invalid' for a term of one ':' whose
\* field key is outside the whitelist.
C16_ValidationMessages ==
    (op = "table" /\ WellFormed /\ Validated /\ count(Term, ":") >= 1
        /\ (count(Term, ":") > 1 \/ FieldKey(Term) \notin valid_search_fields))
        => /\ Responded
           /\ Body.msg = IF count(Term, ":") > 1
                         THEN <<"Encountered error: Search field should not be more than 1">>
                         ELSE <<"Encountered error: Search field is invalid">>

\* a one-token term of one ':' whose key is not whitelisted, with its message
C16_Witness ==
    /\ op = "table" /\ WellFormed /\ phase = "Failed"
    /\ count(Term, ":") = 1
    /\ find(Term, " ", 1) = 0
    /\ FieldKey(Term) = <<"V">>
    /\ Body.msg = <<"Encountered error: Search field is invalid">>

----------------------------------------------------------------------------
(* C18 *)

\* the moves of a request: forward by one phase, or to an end
Moves ==
    {<<"Idle", "Validating">>,
     <<"Validating", "Translating">>, <<"Validating", "Failed">>, <<"Validating", "Raised">>,
     <<"Translating", "AwaitingUpstream">>, <<"Translating", "Failed">>,
     <<"AwaitingUpstream", "Normalizing">>, <<"AwaitingUpstream", "Failed">>,
     <<"Normalizing", "Done">>, <<"Normalizing", "Failed">>,
     <<"Done", "Idle">>, <<"Failed", "Idle">>, <<"Raised", "Idle">>}

\* C18: a request goes Validating -> Translating -> AwaitingUpstream ->
\* Normalizing in that order, each phase going on to the next or to an end; no
\* phase is entered again and nothing is retried, so a request calls the
\* upstream at most once, and not at all when it fails in Validating or
\* Translating.
C18_LinearFlow ==
    [][/\ <<phase, phase'>> \in Moves
       /\ calls' \in {0, 1}
       /\ calls' # calls =>
              \/ phase = "AwaitingUpstream" /\ calls = 0 /\ calls' = 1
              \/ phase' = "Idle"
       /\ (phase \in {"Validating", "Translating"} /\ phase' \in {"Failed", "Raised"}) =>
              calls' = 0 /\ upstream' = None
      ]_vars

\* a structured search that went through the four phases with one call
C18_Witness ==
    /\ op = "table_qs" /\ phase = "Done"
    /\ calls = 1
    /\ Status = 200
    /\ Len(Body.results) = 1

\* ---------------------------------------------------------------------------
\* Metadata marshalling (api/utils/metadata_utils.py)
\* ---------------------------------------------------------------------------

\* most watermarks of a table, most columns of a table
MaxWatermarks == 2
MaxColumns == 1

\* a table record's key, metadata_utils.py lines 23 and 63; the same f-string twice;
\* each literal piece of the format string is one atom
table_key_schema_first(table) ==
    table.database \o <<"://">> \o table.schema \o <<".">> \o table.cluster \o <<"/">> \o table.name

table_key(table) ==
    table.database \o <<"://">> \o table.cluster \o <<".">> \o table.schema \o <<"/">> \o table.name

\* marshall_table_partial, lines 17-27: the schema round trip keeps the fields of a
\* well-formed dict, then key, last_updated_timestamp and type are added
marshall_table_partial(table_dict) ==
    Ret([database |-> table_dict.database,
         cluster |-> table_dict.cluster,
         schema |-> table_dict.schema,
         name |-> table_dict.name,
         key |-> table_key(table_dict),
         last_updated_timestamp |-> None,
         type |-> "table"])

\* next(filter(...)), line 75: the first entry of the given type; with no default,
\* next raises StopIteration when the filter yields nothing
RECURSIVE first_of_type(_, _)
first_of_type(watermarks, type) ==
    IF watermarks = <<>> THEN Raise("StopIteration")
    ELSE IF Head(watermarks).watermark_type = type THEN Ret(Head(watermarks))
    ELSE first_of_type(Tail(watermarks), type)

\* _get_partition_data, lines 73-84
_get_partition_data(watermarks) ==
    IF watermarks # <<>>
    THEN LET high_watermark == first_of_type(watermarks, "high_watermark")
         IN  IF ~high_watermark.ok THEN high_watermark
             ELSE Ret([is_partitioned |-> TRUE,
                       key |-> Some(high_watermark.val.partition_key),
                       value |-> Some(high_watermark.val.partition_value)])
    ELSE Ret([is_partitioned |-> FALSE, key |-> None, value |-> None])

\* COLUMN_STAT_ORDER.get(stat_type, len(COLUMN_STAT_ORDER)), lines 58-59
stat_rank(order, stat) ==
    IF stat.stat_type \in DOMAIN order THEN order[stat.stat_type]
    ELSE Cardinality(DOMAIN order)

\* list.sort(key=...), line 58: a stable sort, here by insertion
RECURSIVE insert_stat(_, _, _)
insert_stat(order, stat, sorted) ==
    IF sorted = <<>> THEN <<stat>>
    ELSE IF stat_rank(order, stat) < stat_rank(order, Head(sorted)) THEN <<stat>> \o sorted
    ELSE <<Head(sorted)>> \o insert_stat(order, stat, Tail(sorted))

RECURSIVE sort_stats(_, _)
sort_stats(order, stats) ==
    IF stats = <<>> THEN <<>>
    ELSE insert_stat(order, stats[Len(stats)], sort_stats(order, SubSeq(stats, 1, Len(stats) - 1)))

\* marshall_table_full, lines 37-66. The user round trips of owners and readers
\* (lines 48-51) touch no field modelled here and are left out. An empty
\* COLUMN_STAT_ORDER is falsy: the columns are then returned as they came, with
\* no is_editable of their own.
marshall_table_full(table_dict, config) ==
    LET is_editable == table_dict.schema \notin config.UNEDITABLE_SCHEMAS
        order == config.COLUMN_STAT_ORDER
        columns == IF DOMAIN order # {}
                   THEN [i \in DOMAIN table_dict.columns |->
                            [name |-> table_dict.columns[i].name,
                             stats |-> sort_stats(order, table_dict.columns[i].stats),
                             is_editable |-> Some(is_editable)]]
                   ELSE [i \in DOMAIN table_dict.columns |->
                            [name |-> table_dict.columns[i].name,
                             stats |-> table_dict.columns[i].stats,
                             is_editable |-> None]]
        partition == _get_partition_data(table_dict.watermarks)
    IN  IF ~partition.ok THEN partition
        ELSE Ret([database |-> table_dict.database,
                  cluster |-> table_dict.cluster,
                  schema |-> table_dict.schema,
                  name |-> table_dict.name,
                  is_editable |-> is_editable,
                  columns |-> columns,
                  watermarks |-> table_dict.watermarks,
                  key |-> table_key(table_dict),
                  partition |-> partition.val])

\* --- inputs of the marshalling functions ---

TableNames == {<<"a">>, <<"b">>}

PartialDicts == [database : TableNames, cluster : TableNames, schema : TableNames, name : TableNames]

\* watermarks as the metadata service sends them; key and value go together so
\* that two entries of one type can be told apart
WatermarkEntries ==
    { [watermark_type |-> t, partition_key |-> kv[1], partition_value |-> kv[2]] :
        t \in {"high_watermark", "low_watermark"}, kv \in {<<"k1", "v1">>, <<"k2", "v2">>} }

RECURSIVE ListsUpTo(_, _)
ListsUpTo(S, n) ==
    IF n = 0 THEN {<<>>}
    ELSE LET shorter == ListsUpTo(S, n - 1)
         IN  shorter \cup {Append(l, x) : l \in {m \in shorter : Len(m) = n - 1}, x \in S}

StatLists ==
    { <<>>,
      <<[stat_type |-> "max"], [stat_type |-> "min"]>>,
      <<[stat_type |-> "min"], [stat_type |-> "max"]>>,
      <<[stat_type |-> "other"], [stat_type |-> "min"]>> }

ColumnEntries == { [name |-> <<"c">>, stats |-> s] : s \in StatLists }

FullDicts ==
    [database : TableNames, cluster : TableNames, schema : TableNames, name : TableNames,
     columns : ListsUpTo(ColumnEntries, MaxColumns),
     watermarks : ListsUpTo(WatermarkEntries, MaxWatermarks)]

\* app.config as read at lines 42 and 54
Configs ==
    [UNEDITABLE_SCHEMAS : {{}, {<<"a">>}},
     COLUMN_STAT_ORDER : {<<>>, ("min" :> 0) @@ ("max" :> 1)}]

\* --- one action per marshalling function ---

MarshallTablePartial ==
    /\ marshalling.call = "none"
    /\ \E table_dict \in PartialDicts :
          marshalling' = [call |-> "partial", table_dict |-> Some(table_dict), config |-> None,
                          partition |-> None, result |-> Some(marshall_table_partial(table_dict))]
    /\ UNCHANGED <<phase, op, args, results_dict, request, upstream, calls, response, outcome,
                   raised, reqs>>

MarshallTableFull ==
    /\ marshalling.call = "none"
    /\ \E table_dict \in FullDicts, config \in Configs :
          marshalling' = [call |-> "full", table_dict |-> Some(table_dict), config |-> Some(config),
                          partition |-> Some(_get_partition_data(table_dict.watermarks)),
                          result |-> Some(marshall_table_full(table_dict, config))]
    /\ UNCHANGED <<phase, op, args, results_dict, request, upstream, calls, response, outcome,
                   raised, reqs>>

MarshallReturn ==
    /\ marshalling.call # "none"
    /\ marshalling' = NoCall
    /\ UNCHANGED <<phase, op, args, results_dict, request, upstream, calls, response, outcome,
                   raised, reqs>>

NextMarshalling == MarshallTablePartial \/ MarshallTableFull \/ MarshallReturn

SpecMarshalling == Init /\ [][NextMarshalling]_vars

\* --- claims about marshalling ---

Marshalled == marshalling.call # "none"
TableDict == Value(marshalling.table_dict)
Result == Value(marshalling.result)
Partition == Value(marshalling.partition)
Watermarks == TableDict.watermarks
HighWatermarks == {i \in DOMAIN Watermarks : Watermarks[i].watermark_type = "high_watermark"}
FirstHigh == Watermarks[CHOOSE i \in HighWatermarks : \A j \in HighWatermarks : i <= j]

C17_WitnessPartial ==
    /\ marshalling.call = "partial"
    /\ Result.val.key = <<"b", "://", "a", ".", "b", "/", "a">>

\* C20: _get_partition_data never raises; without a high_watermark entry, in an
\* empty list or a non-empty one, it returns is_partitioned False, and with one
\* it returns is_partitioned True with key and value of the first such entry
C20_PartitionData ==
    marshalling.call = "full" =>
        /\ Partition.ok
        /\ HighWatermarks = {} => ~Partition.val.is_partitioned
        /\ HighWatermarks # {} =>
              /\ Partition.val.is_partitioned
              /\ Partition.val.key = Some(FirstHigh.partition_key)
              /\ Partition.val.value = Some(FirstHigh.partition_value)

\* what the code does hold to: the stated results whenever the list is empty
\* or carries a high_watermark entry
C20_Holds ==
    (marshalling.call = "full" /\ (Watermarks = <<>> \/ HighWatermarks # {})) =>
        /\ Partition.ok
        /\ Partition.val.is_partitioned <=> HighWatermarks # {}
        /\ HighWatermarks # {} => Partition.val.key = Some(FirstHigh.partition_key)

C20_Witness ==
    /\ marshalling.call = "full"
    /\ Len(Watermarks) = 2
    /\ Watermarks[1].watermark_type = "low_watermark"
    /\ Watermarks[2].watermark_type = "high_watermark"
    /\ Partition.ok /\ Partition.val.key = Some(Watermarks[2].partition_key)

----------------------------------------------------------------------------
(* Requests served side by side *)

\* the requests and upstream answers the side-by-side requests are drawn from:
\* a plain and a field search of tables, a field search that fails validation,
\* a user search and a search over a query string
ConcurrentRequests ==
    { [op |-> "table", args |-> [query |-> Some(<<"V">>), page_index |-> Some(<<"1">>), filters |-> None]],
      [op |-> "table", args |-> [query |-> Some(<<"t", ":", "V">>), page_index |-> Some(<<"1">>), filters |-> None]],
      [op |-> "table", args |-> [query |-> Some(<<"V", ":", "t">>), page_index |-> Some(<<"1">>), filters |-> None]],
      [op |-> "user", args |-> [query |-> Some(<<"t">>), page_index |-> Some(<<"0", "1">>), filters |-> None]],
      [op |-> "table_qs", args |-> [query |-> Some(<<"V">>), page_index |-> Some(<<"1">>), filters |-> Some({"schema"})]] }

ConcurrentAnswers ==
    { [exc |-> None, status_code |-> OK,
       body |-> [kind |-> "json", results |-> <<[name |-> "r1", well_formed |-> TRUE]>>, total_results |-> 3]],
      [exc |-> None, status_code |-> OK,
       body |-> [kind |-> "json", results |-> <<[name |-> "r2", well_formed |-> TRUE]>>, total_results |-> 7]],
      [exc |-> None, status_code |-> INTERNAL_SERVER_ERROR, body |-> NotJson],
      [exc |-> Some("ConnectionError"), status_code |-> 0, body |-> NotJson] }

\* as results_dict_of, with one envelope kept at module level and used by every call
results_dict_of_module_level(r) == 1

\* where a call keeps its envelope: results_dict is a local of the call, created
\* anew at v0.py:77-82, 166-171 and 241-246
results_dict_of(r) == r

\* the envelope the call of request r works on
results_dict_in(r) == reqs[results_dict_of(r)].results_dict

\* a step of request r leaves st behind: the locals in r's own frame, the
\* envelope where the call keeps it
Leaves(r, st, up, n) ==
    LET frame == [reqs EXCEPT ![r].phase = st.phase,
                              ![r].request = st.request,
                              ![r].response = st.response,
                              ![r].outcome = st.outcome,
                              ![r].raised = st.raised,
                              ![r].upstream = up,
                              ![r].calls = n]
    IN  reqs' = [frame EXCEPT ![results_dict_of(r)].results_dict = st.results_dict]

OthersUnchanged ==
    UNCHANGED <<phase, op, args, results_dict, request, upstream, calls, response, outcome,
                raised, marshalling>>

RequestReceive(r) ==
    /\ reqs[r].phase = "Idle"
    /\ \E c \in ConcurrentRequests :
          reqs' = [reqs EXCEPT ![r].phase = "Validating", ![r].op = c.op, ![r].args = c.args]
    /\ OthersUnchanged

RequestValidate(r) ==
    /\ reqs[r].phase = "Validating"
    /\ Leaves(r, validate(reqs[r].op, reqs[r].args), reqs[r].upstream, reqs[r].calls)
    /\ OthersUnchanged

RequestTranslate(r) ==
    /\ reqs[r].phase = "Translating"
    /\ results_dict_in(r) # None
    /\ Leaves(r, translate(reqs[r].op, Value(results_dict_in(r)), reqs[r].args),
              reqs[r].upstream, reqs[r].calls)
    /\ OthersUnchanged

RequestCallUpstream(r) ==
    /\ reqs[r].phase = "AwaitingUpstream"
    /\ results_dict_in(r) # None
    /\ \E u \in ConcurrentAnswers :
          IF u.exc # None
          THEN LET failed == on_exception(reqs[r].op, Value(results_dict_in(r)), Value(u.exc)) IN
               Leaves(r, St("Failed", Some(failed.body), reqs[r].request, Some(failed),
                            "exception", None),
                      Some(u), reqs[r].calls + 1)
          ELSE Leaves(r, St("Normalizing", results_dict_in(r), reqs[r].request, None, "none", None),
                      Some(u), reqs[r].calls + 1)
    /\ OthersUnchanged

RequestNormalize(r) ==
    /\ reqs[r].phase = "Normalizing"
    /\ results_dict_in(r) # None
    /\ Leaves(r, normalize(reqs[r].op, Value(results_dict_in(r)), Value(reqs[r].request),
                           Value(reqs[r].upstream)),
              reqs[r].upstream, reqs[r].calls)
    /\ OthersUnchanged

\* the call returns: its frame and its envelope are gone
RequestFinish(r) ==
    /\ reqs[r].phase \in {"Done", "Failed", "Raised"}
    /\ reqs' = [reqs EXCEPT ![r] = Idle]
    /\ OthersUnchanged

NextConcurrent ==
    \/ \E r \in Requests : RequestReceive(r)
    \/ \E r \in Requests : RequestValidate(r)
    \/ \E r \in Requests : RequestTranslate(r)
    \/ \E r \in Requests : RequestCallUpstream(r)
    \/ \E r \in Requests : RequestNormalize(r)
    \/ \E r \in Requests : RequestFinish(r)

SpecConcurrent == Init /\ [][NextConcurrent]_vars

\* --- the claim about requests served side by side ---

\* what a request answers when it is served alone, given the upstream's answer
\* to it (none if the request never got that far)
alone(o, a, u) ==
    LET validated == validate(o, a) IN
    IF validated.phase # "Translating" THEN validated
    ELSE LET translated == translate(o, Value(validated.results_dict), a) IN
         IF translated.phase # "AwaitingUpstream" THEN translated
         ELSE IF Value(u).exc # None
              THEN LET failed == on_exception(o, Value(translated.results_dict), Value(Value(u).exc)) IN
                   St("Failed", Some(failed.body), translated.request, Some(failed), "exception", None)
              ELSE normalize(o, Value(translated.results_dict), Value(translated.request), Value(u))

Over(r) == reqs[r].phase \in {"Done", "Failed", "Raised"}

\* C19: under every interleaving of the steps of the requests, a request that is
\* over has answered with the envelope and status it answers with when served
\* alone, and a slot whose request has not come holds nothing of an earlier one
C19_Independent ==
    \A r \in Requests :
        /\ Over(r) =>
              LET expected == alone(reqs[r].op, reqs[r].args, reqs[r].upstream) IN
              /\ reqs[r].response = expected.response
              /\ reqs[r].raised = expected.raised
              /\ reqs[r].outcome = expected.outcome
              /\ reqs[r].results_dict = expected.results_dict
        /\ reqs[r].phase = "Idle" => reqs[r] = Idle

\* two requests over at once, with different terms, each with its own answer
C19_Witness ==
    /\ reqs[1].phase = "Done" /\ reqs[2].phase = "Done"
    /\ reqs[1].op = "table" /\ reqs[2].op = "user"
    /\ Value(reqs[1].response).body.search_term # Value(reqs[2].response).body.search_term
    /\ Value(reqs[1].upstream) # Value(reqs[2].upstream)
    /\ Value(reqs[1].response).status_code = OK
    /\ Value(reqs[2].response).status_code = OK

\* C21: the table returned by marshall_table_full is is_editable exactly when
\* its schema is not among the uneditable schemas, and every column of it
\* carries an is_editable flag equal to the table's, with or without a
\* column-stat order
C21_EditableFlags ==
    (marshalling.call = "full" /\ Result.ok) =>
        /\ Result.val.is_editable <=>
              TableDict.schema \notin Value(marshalling.config).UNEDITABLE_SCHEMAS
        /\ \A i \in DOMAIN Result.val.columns :
              Result.val.columns[i].is_editable = Some(Result.val.is_editable)

\* what the code does hold to: the table-level flag always, the column flags
\* when a column-stat order is configured
C21_Holds ==
    (marshalling.call = "full" /\ Result.ok) =>
        /\ Result.val.is_editable <=>
              TableDict.schema \notin Value(marshalling.config).UNEDITABLE_SCHEMAS
        /\ DOMAIN Value(marshalling.config).COLUMN_STAT_ORDER # {} =>
              \A i \in DOMAIN Result.val.columns :
                  Result.val.columns[i].is_editable = Some(Result.val.is_editable)

\* a returned table with a column, marshalled without a column-stat order
C21_NoOrder ==
    /\ marshalling.call = "full" /\ Result.ok
    /\ DOMAIN Value(marshalling.config).COLUMN_STAT_ORDER = {}
    /\ Len(Result.val.columns) = 1
    /\ Result.val.columns[1].is_editable = None

====
